---------------------------- MODULE Spec2Model ----------------------------
(***************************************************************************)
(* Velocity-resolved inverse-kinematics controller (notebook/controller.py *)
(* and notebook/linalg.py).                                                *)
(*                                                                         *)
(* Real numbers are exact rationals <<n, d>> (d > 0, lowest terms), so the *)
(* default parameters 1e-4, 0.03, 0.01 are represented exactly.            *)
(* Matrices are sequences of rows.                                         *)
(***************************************************************************)
EXTENDS Integers, Sequences, FiniteSets, TLC

--------------------------------------------------------------------------
(* Exact rational arithmetic (the floats of the program) *)

Abs(x) == IF x < 0 THEN -x ELSE x

RECURSIVE GCD(_, _)
GCD(a, b) == IF b = 0 THEN a ELSE GCD(b, a % b)

Rat(n, d) ==
    LET s == IF d < 0 THEN -1 ELSE 1
        g == GCD(Abs(n), Abs(d))
    IN  <<(s * n) \div g, (s * d) \div g>>

R(k) == <<k, 1>>

RatAdd(x, y) ==
    LET g == GCD(x[2], y[2])
        l == (x[2] \div g) * y[2]
    IN  Rat(x[1] * (l \div x[2]) + y[1] * (l \div y[2]), l)

RatNeg(x) == <<-x[1], x[2]>>

RatSub(x, y) == RatAdd(x, RatNeg(y))

RatMul(x, y) ==
    LET g1 == GCD(Abs(x[1]), y[2])
        g2 == GCD(Abs(y[1]), x[2])
    IN  Rat((x[1] \div g1) * (y[1] \div g2), (x[2] \div g2) * (y[2] \div g1))

RatInv(x) == Rat(x[2], x[1])

RatDiv(x, y) == RatMul(x, RatInv(y))

RatLess(x, y) == x[1] * y[2] < y[1] * x[2]

RatLeq(x, y) == x[1] * y[2] <= y[1] * x[2]

RatAbs(x) == <<Abs(x[1]), x[2]>>

RatMax(x, y) == IF RatLess(x, y) THEN y ELSE x

RECURSIVE RatSum(_)
RatSum(s) == IF s = <<>> THEN R(0) ELSE RatAdd(Head(s), RatSum(Tail(s)))

(* numpy matrix helpers.  Seq1 is the identity on sequences; it makes TLC   *)
(* evaluate a sequence once instead of at every index into it.              *)
Seq1(s) == s \o <<>>

NRows(A) == Len(A)
NCols(A) == Len(A[1])

Transpose(A) == Seq1([j \in 1..NCols(A) |-> Seq1([i \in 1..NRows(A) |-> A[i][j]])])

MatMul(A, B) ==
    Seq1([i \in 1..NRows(A) |->
        Seq1([j \in 1..NCols(B) |->
            RatSum(Seq1([k \in 1..NCols(A) |-> RatMul(A[i][k], B[k][j])]))])])

MatVec(A, v) ==
    Seq1([i \in 1..NRows(A) |->
        RatSum(Seq1([k \in 1..NCols(A) |-> RatMul(A[i][k], v[k])]))])

Diag(s) ==
    Seq1([i \in 1..Len(s) |-> Seq1([j \in 1..Len(s) |-> IF i = j THEN s[i] ELSE R(0)])])

VecAdd(u, v) == Seq1([i \in 1..Len(u) |-> RatAdd(u[i], v[i])])

VecSub(u, v) == Seq1([i \in 1..Len(u) |-> RatSub(u[i], v[i])])

ZeroVec(n) == Seq1([i \in 1..n |-> R(0)])

--------------------------------------------------------------------------
(* np.linalg.svd(J, full_matrices=False) on a rectangular diagonal matrix  *)
(* J (m x 2, J[i][j] = 0 for i # j): the singular values are the absolute  *)
(* diagonal entries in descending order, U carries the row permutation and *)
(* the signs, Vt the column permutation.                                   *)
SVD(J) ==
    LET a   == J[1][1]
        b   == J[2][2]
        o   == IF RatLess(RatAbs(a), RatAbs(b)) THEN <<2, 1>> ELSE <<1, 2>>
        d   == <<a, b>>
        sgn(x) == IF x[1] < 0 THEN R(-1) ELSE R(1)
    IN  [U  |-> Seq1([i \in 1..NRows(J) |->
                    Seq1([k \in 1..2 |-> IF i = o[k] THEN sgn(d[o[k]]) ELSE R(0)])]),
         S  |-> Seq1([k \in 1..2 |-> RatAbs(d[o[k]])]),
         Vt |-> Seq1([k \in 1..2 |->
                    Seq1([j \in 1..2 |-> IF j = o[k] THEN R(1) ELSE R(0)])])]

(* linalg.py: the four rules that invert one singular value s *)
Sinv_plain(s) == IF RatLess(R(0), s) THEN RatInv(s) ELSE R(0)

Sinv_clipped(s, eps) == IF RatLess(s, eps) THEN R(0) ELSE RatInv(s)

Sinv_damped_undamped(s, lam) == IF RatLess(R(0), s) THEN RatInv(s) ELSE R(0)

Sinv_damped(s, lam) == RatDiv(s, RatAdd(RatMul(s, s), RatMul(lam, lam)))

Sinv_smooth_geq(s, eps, lam_min) ==
    IF RatLeq(eps, s) THEN RatInv(s)
    ELSE RatDiv(s, RatAdd(RatMul(s, s), RatMul(lam_min, lam_min)))

Sinv_smooth(s, eps, lam_min) ==
    IF RatLess(eps, s) THEN RatInv(s)
    ELSE RatDiv(s, RatAdd(RatMul(s, s), RatMul(lam_min, lam_min)))

Variants == {"plain", "clipped", "damped", "smooth"}

(* the if / elif chain of pinv_svd, elementwise over S in the order of the SVD *)
Sinv(S, variant, eps, lam, lam_min) ==
    Seq1([k \in 1..Len(S) |->
        CASE variant = "plain"   -> Sinv_plain(S[k])
          [] variant = "clipped" -> Sinv_clipped(S[k], eps)
          [] variant = "damped"  -> Sinv_damped(S[k], lam)
          [] variant = "smooth"  -> Sinv_smooth(S[k], eps, lam_min)])

(* return Vt.T @ np.diag(Sinv) @ U.T *)
pinv_return(svd, sinv) == MatMul(MatMul(Transpose(svd.Vt), Diag(sinv)), Transpose(svd.U))

(* the value pinv_svd returns for a known variant *)
pinv_svd(J, variant, eps, lam, lam_min) ==
    pinv_return(SVD(J), Sinv(SVD(J).S, variant, eps, lam, lam_min))

(* numpy.linalg.pinv(J, rcond): singular values <= rcond * max(S) are zeroed, *)
(* the others inverted                                                       *)
numpy_pinv(J, rcond) ==
    LET svd    == SVD(J)
        cutoff == RatMul(rcond, RatMax(svd.S[1], svd.S[2]))
        s      == Seq1([k \in 1..2 |->
                     IF RatLess(cutoff, svd.S[k]) THEN RatInv(svd.S[k]) ELSE R(0)])
    IN  MatMul(Transpose(svd.Vt), MatMul(Diag(s), Transpose(svd.U)))

(* Controller.solve: numpy.linalg.pinv(J, 0.01).dot(error) *)
SolveRcond == <<1, 100>>

solve(J, error) == MatVec(numpy_pinv(J, SolveRcond), error)

(* defaults of the keyword parameters of pinv_svd *)
eps_default == <<1, 10000>>
lam_default == <<3, 100>>
lam_min_default == <<1, 100>>


--------------------------------------------------------------------------
(* Poses.  A pose is the 4x4 homogeneous matrix of the program, kept as its *)
(* rotation block [0:3, 0:3] and its translation column [0:3, 3].           *)

None == "None"

I3 == <<<<R(1), R(0), R(0)>>, <<R(0), R(1), R(0)>>, <<R(0), R(0), R(1)>>>>

(* rotation about z by k quarter turns *)
RotZ(k) ==
    CASE k = 0 -> I3
      [] k = 1 -> <<<<R(0), R(-1), R(0)>>, <<R(1), R(0), R(0)>>, <<R(0), R(0), R(1)>>>>
      [] k = 2 -> <<<<R(-1), R(0), R(0)>>, <<R(0), R(-1), R(0)>>, <<R(0), R(0), R(1)>>>>
      [] k = 3 -> <<<<R(0), R(1), R(0)>>, <<R(-1), R(0), R(0)>>, <<R(0), R(0), R(1)>>>>

(* rotation about x by a half turn *)
RotX2 == <<<<R(1), R(0), R(0)>>, <<R(0), R(-1), R(0)>>, <<R(0), R(0), R(-1)>>>>

(* tf.quaternion_from_matrix.  The quaternion (x, y, z, w) it returns is    *)
(* v * 0.5 / sqrt(t); it is kept as the pair (v, t), so no square root is   *)
(* taken.  Indices are those of the library plus one.                       *)
quaternion_from_matrix(M) ==
    LET tr == RatAdd(RatSum(<<M[1][1], M[2][2], M[3][3]>>), R(1))
    IN  IF RatLess(R(1), tr)
        THEN [v |-> <<RatSub(M[3][2], M[2][3]), RatSub(M[1][3], M[3][1]),
                      RatSub(M[2][1], M[1][2]), tr>>,
              t |-> tr]
        ELSE LET p1 == IF RatLess(M[1][1], M[2][2]) THEN <<2, 3, 1>> ELSE <<1, 2, 3>>
                 p  == IF RatLess(M[p1[1]][p1[1]], M[3][3]) THEN <<3, 1, 2>> ELSE p1
                 i  == p[1]
                 j  == p[2]
                 k  == p[3]
                 t2 == RatAdd(RatSub(M[i][i], RatAdd(M[j][j], M[k][k])), R(1))
                 q  == Seq1([n \in 1..4 |->
                          IF n = i THEN t2
                          ELSE IF n = j THEN RatAdd(M[i][j], M[j][i])
                          ELSE IF n = k THEN RatAdd(M[k][i], M[i][k])
                          ELSE RatSub(M[k][j], M[j][k])])
             IN  [v |-> q, t |-> t2]

(* tf.quaternion_matrix: nq = q.q; the identity when nq is (numerically)    *)
(* zero; else q is scaled by sqrt(2 / nq) and the rotation is read off the  *)
(* outer product, whose entries are 2 q_i q_j / nq.                         *)
quaternion_matrix(q) ==
    LET sq(a, b) == RatDiv(RatMul(a, b), RatMul(R(4), q.t))
        nq == RatSum(Seq1([n \in 1..4 |-> sq(q.v[n], q.v[n])]))
        o(a, b) == RatDiv(RatMul(R(2), sq(q.v[a], q.v[b])), nq)
    IN  IF nq[1] = 0 THEN I3
        ELSE <<<<RatSub(RatSub(R(1), o(2, 2)), o(3, 3)), RatSub(o(1, 2), o(3, 4)),
                 RatAdd(o(1, 3), o(2, 4))>>,
               <<RatAdd(o(1, 2), o(3, 4)), RatSub(RatSub(R(1), o(1, 1)), o(3, 3)),
                 RatSub(o(2, 3), o(1, 4))>>,
               <<RatSub(o(1, 3), o(2, 4)), RatAdd(o(2, 3), o(1, 4)),
                 RatSub(RatSub(R(1), o(1, 1)), o(2, 2))>>>>

(* numpy.identity(4) *)
IdentityPose == [rot |-> I3, trans |-> ZeroVec(3)]

(* process_marker_feedback, line 87: a fresh matrix with the rotation of q  *)
(* and a zero translation column                                            *)
feedback_line87(q) == [rot |-> quaternion_matrix(q), trans |-> ZeroVec(3)]

(* process_marker_feedback, line 88: the translation column is written in place *)
feedback_line88(obj, p) == [obj EXCEPT !.trans = p]

(* the pose one feedback message delivers *)
DeliveredPose(fb) == [rot |-> quaternion_matrix(fb.q), trans |-> fb.p]

(* create_interactive_marker, lines 43-44: the marker pose made from T *)
marker_pose(T) == [q |-> quaternion_from_matrix(T.rot), p |-> T.trans]

InitTarget_identity(T) == IdentityPose

(* MyInteractiveMarkerServer.__init__: target = identity(4), then           *)
(* create_interactive_marker(T) runs process_marker_feedback(im) to the end *)
InitTarget(T) == feedback_line88(feedback_line87(marker_pose(T).q), marker_pose(T).p)

(* Forward kinematics of the robot model (an external collaborator): a      *)
(* deterministic function of the joint configuration.  Two joints; the tool *)
(* is at (|q1|, q2, 0), folded over at q1 = 0 where the Jacobian loses rank, *)
(* and its orientation is constant on q1 > 0, q1 = 0 and q1 < 0.            *)
fk(q) ==
    LET s == IF q[1][1] > 0 THEN 1 ELSE IF q[1][1] = 0 THEN 0 ELSE -1
    IN  [T |-> [rot   |-> RotZ(1 - s),
                trans |-> <<RatAbs(q[1]), q[2], R(0)>>],
         J |-> <<<<R(s), R(0)>>, <<R(0), R(1)>>, <<R(0), R(0)>>,
                 <<R(0), R(0)>>, <<R(0), R(0)>>, <<R(0), R(0)>>>>]

(* J[0:3, :] *)
Rows3(J) == SubSeq(J, 1, 3)

(* Controller.position_error *)
position_error(T_tgt, T_cur) == VecSub(T_tgt.trans, T_cur.trans)

(* Controller.actuate: joint_msg.position += q_delta; publish; fk *)
actuate_stale(q, q_delta) ==
    LET nq == VecAdd(q, q_delta)
    IN  [position |-> nq, published |-> nq, TJ |-> fk(q)]

actuate_assign(q, q_delta) ==
    [position |-> q_delta, published |-> q_delta, TJ |-> fk(q_delta)]

actuate(q, q_delta) ==
    LET nq == VecAdd(q, q_delta)
    IN  [position |-> nq, published |-> nq, TJ |-> fk(nq)]

LoopNext_everywhere(p, sd) ==
    IF sd THEN "stopped"
    ELSE CASE p = "check"   -> "read"
           [] p = "read"    -> "error"
           [] p = "error"   -> "solve"
           [] p = "solve"   -> "actuate"
           [] p = "actuate" -> "sleep"
           [] p = "sleep"   -> "check"

(* the main loop, lines 162-164: where control goes from each position.     *)
(* rospy.is_shutdown() is read in the while condition; rate.sleep() raises  *)
(* ROSInterruptException, which ends the program, when the node has been    *)
(* shut down.  Nothing inside position_control looks at the shutdown state. *)
LoopNext(p, sd) ==
    CASE p = "check"   -> IF sd THEN "stopped" ELSE "read"
      [] p = "read"    -> "error"
      [] p = "error"   -> "solve"
      [] p = "solve"   -> "actuate"
      [] p = "actuate" -> "sleep"
      [] p = "sleep"   -> IF sd THEN "stopped" ELSE "check"

--------------------------------------------------------------------------
(* Orientation error, for rotations about the z axis by a small angle.      *)
(* Angles are integers, in units of 1e-9 rad.                               *)

(* R_cur.T @ R_tgt of two rotations about z: the rotation by the difference *)
R_err(a_tgt, a_cur) == a_tgt - a_cur

(* tf.rotation_from_matrix: angle and unit axis of a rotation about z *)
rotation_from_matrix(a) == [angle |-> a, axis |-> <<0, 0, 1>>]

(* numpy.isclose(angle, 0.0): |angle - 0| <= atol + rtol * |0|, atol = 1e-8 *)
IscloseAtol == 10

isclose_zero(angle) == Abs(angle) <= IscloseAtol

(* Controller.orientation_error *)
orientation_error(a_tgt, a_cur) ==
    LET r == rotation_from_matrix(R_err(a_tgt, a_cur))
    IN  Seq1([i \in 1..3 |-> r.angle * r.axis[i]])

(* alt_orientation_error *)
alt_orientation_error(a_tgt, a_cur) ==
    LET r == rotation_from_matrix(R_err(a_tgt, a_cur))
    IN  IF isclose_zero(r.angle) THEN <<0, 0, 0>>
        ELSE Seq1([i \in 1..3 |-> r.angle * r.axis[i]])

--------------------------------------------------------------------------
(* Bounds of the model *)

MaxUpdates == 2      \* feedback messages per run
MaxAngle   == 12     \* orientation angles are in -MaxAngle..MaxAngle
MaxErr     == 1      \* error components handed to solve are in -MaxErr..MaxErr

VARIABLES
    (* Controller and its interactive-marker server *)
    joints,      \* joint_msg.position
    T,           \* self.T, the cached pose
    J,           \* self.J, the cached Jacobian
    published,   \* the joint state last handed to pub.publish (<<>>: none yet)
    heap,        \* the matrices process_marker_feedback has made (None: freed)
    target,      \* im_server.target: an index into heap
    fbpc,        \* position of the feedback callback: "idle" or "line88"
    fbmsg,       \* the feedback message the callback is processing
    pc,          \* position of the main loop
    shutdown,    \* rospy.is_shutdown()
    loopTarget,  \* the argument of position_control: an index into heap (0: none)
    v,           \* position_control's error
    q_delta,     \* position_control's joint delta
    (* history *)
    q_init,      \* the joint configuration after construction
    sumDeltas,   \* elementwise sum of the deltas actuate has applied
    delivered,   \* the poses delivered by the feedback messages so far
    observed,    \* the target matrix as position_error read it
    nUpdates,    \* feedback messages so far
    cycle,       \* completed cycles: 0, 1, or 2 for two and more
    firstClean,  \* no feedback had arrived when the first cycle read the target
    (* pinv_svd and solve called on their own *)
    pv_J,        \* the matrix J
    policy,      \* the configured policy: variant, eps, lam, lam_min
    pcP,         \* position in pinv_svd: "idle", "svd_done", "returned", "raised"
    pv_svd,      \* <<the decomposition the call has computed>>, <<>> before it
    pv_out,      \* the matrix pinv_svd returned (<<>>: none)
    sv_err,      \* the error vector handed to solve (<<>>: none)
    sv_out,      \* the joint delta solve returned (<<>>: none)
    (* the orientation errors called on their own *)
    oe_tgt,      \* angle of the target orientation
    oe_cur,      \* angle of the current orientation
    oe_out,      \* result of Controller.orientation_error (<<>>: none)
    alt_out      \* result of alt_orientation_error (<<>>: none)

ctlVars == <<joints, T, J, published, heap, target, fbpc, fbmsg, pc, shutdown,
             loopTarget, v, q_delta, q_init, sumDeltas, delivered, observed,
             nUpdates, cycle, firstClean>>
pinvVars == <<pv_J, policy, pcP, pv_svd, pv_out, sv_err, sv_out>>
oriVars == <<oe_tgt, oe_cur, oe_out, alt_out>>
vars == <<ctlVars, pinvVars, oriVars>>

(* Controller.__init__: joints within their limits, fk, marker server *)
InitJoints == {<<R(a), R(b)>> : a \in -1..1, b \in 0..1}

CtlInit ==
    /\ q_init \in InitJoints
    /\ joints = q_init
    /\ T = fk(joints).T
    /\ J = fk(joints).J
    /\ published = <<>>
    /\ heap = <<InitTarget(T)>>
    /\ target = 1
    /\ fbpc = "idle"
    /\ fbmsg = None
    /\ pc = "check"
    /\ shutdown = FALSE
    /\ loopTarget = 0
    /\ v = None
    /\ q_delta = None
    /\ sumDeltas = ZeroVec(2)
    /\ delivered = {DeliveredPose(marker_pose(T))}
    /\ observed = None
    /\ nUpdates = 0
    /\ cycle = 0
    /\ firstClean = FALSE

(* pinv_svd / solve not in use *)
PinvIdle ==
    /\ pv_J = <<>> /\ policy = None /\ pcP = "idle" /\ pv_svd = <<>>
    /\ pv_out = <<>> /\ sv_err = <<>> /\ sv_out = <<>>

OriIdle == oe_tgt = 0 /\ oe_cur = 0 /\ oe_out = <<>> /\ alt_out = <<>>

Init == CtlInit /\ PinvIdle /\ OriIdle

(* the feedback messages rviz can send: orientation q, position p *)
FeedbackMsgs ==
    {[q |-> quaternion_from_matrix(RotZ(0)), p |-> <<R(1), R(0), R(0)>>],
     [q |-> quaternion_from_matrix(RotX2),   p |-> <<R(1), R(0), R(0)>>],
     [q |-> quaternion_from_matrix(RotX2),   p |-> <<R(0), R(1), R(0)>>]}

(* each message with the matrix line 87 makes of it and the pose it delivers *)
FeedbackCases ==
    {[msg |-> m, line87 |-> feedback_line87(m.q), pose |-> DeliveredPose(m)] :
        m \in FeedbackMsgs}

(* reference counting: a matrix neither im_server.target nor the loop's     *)
(* argument refers to is freed                                              *)
Collect(h, live) == Seq1([i \in 1..Len(h) |-> IF i \in live THEN h[i] ELSE None])

(* process_marker_feedback up to and including line 87 *)
FeedbackAssign ==
    /\ fbpc = "idle"
    /\ ~shutdown
    /\ nUpdates < MaxUpdates
    /\ \E c \in FeedbackCases :
          /\ fbmsg' = c.msg
          /\ heap' = Collect(Append(heap, c.line87), {Len(heap) + 1, loopTarget})
          /\ delivered' = delivered \cup {c.pose}
    /\ target' = Len(heap) + 1
    /\ fbpc' = "line88"
    /\ nUpdates' = nUpdates + 1
    /\ UNCHANGED <<joints, T, J, published, pc, shutdown, loopTarget, v, q_delta,
                   q_init, sumDeltas, observed, cycle, firstClean>>
    /\ UNCHANGED <<pinvVars, oriVars>>

(* process_marker_feedback, line 88 *)
FeedbackSetTranslation ==
    /\ fbpc = "line88"
    /\ heap' = [heap EXCEPT ![target] = feedback_line88(heap[target], fbmsg.p)]
    /\ fbpc' = "idle"
    /\ fbmsg' = None
    /\ UNCHANGED <<joints, T, J, published, target, pc, shutdown, loopTarget, v,
                   q_delta, q_init, sumDeltas, delivered, observed, nUpdates,
                   cycle, firstClean>>
    /\ UNCHANGED <<pinvVars, oriVars>>

(* while not rospy.is_shutdown() *)
LoopCheck ==
    /\ pc = "check"
    /\ pc' = LoopNext(pc, shutdown)
    /\ UNCHANGED <<joints, T, J, published, heap, target, fbpc, fbmsg, shutdown,
                   loopTarget, v, q_delta, q_init, sumDeltas, delivered, observed,
                   nUpdates, cycle, firstClean>>
    /\ UNCHANGED <<pinvVars, oriVars>>

(* the argument c.im_server.target is evaluated: a reference to the matrix *)
ReadTarget ==
    /\ pc = "read"
    /\ loopTarget' = target
    /\ firstClean' = IF cycle = 0 THEN nUpdates = 0 ELSE firstClean
    /\ pc' = LoopNext(pc, shutdown)
    /\ UNCHANGED <<joints, T, J, published, heap, target, fbpc, fbmsg, shutdown,
                   v, q_delta, q_init, sumDeltas, delivered, observed, nUpdates, cycle>>
    /\ UNCHANGED <<pinvVars, oriVars>>

(* position_control, line 145 *)
ComputeError ==
    /\ pc = "error"
    /\ v' = position_error(heap[loopTarget], T)
    /\ observed' = heap[loopTarget]
    /\ pc' = LoopNext(pc, shutdown)
    /\ UNCHANGED <<joints, T, J, published, heap, target, fbpc, fbmsg, shutdown,
                   loopTarget, q_delta, q_init, sumDeltas, delivered, nUpdates,
                   cycle, firstClean>>
    /\ UNCHANGED <<pinvVars, oriVars>>

(* position_control, line 146 *)
Solve ==
    /\ pc = "solve"
    /\ q_delta' = solve(Rows3(J), v)
    /\ pc' = LoopNext(pc, shutdown)
    /\ UNCHANGED <<joints, T, J, published, heap, target, fbpc, fbmsg, shutdown,
                   loopTarget, v, q_init, sumDeltas, delivered, observed, nUpdates,
                   cycle, firstClean>>
    /\ UNCHANGED <<pinvVars, oriVars>>

(* position_control, line 147, and its return: the locals are dropped *)
Actuate ==
    /\ pc = "actuate"
    /\ LET r == actuate(joints, q_delta)
       IN  /\ joints' = r.position
           /\ published' = r.published
           /\ T' = r.TJ.T
           /\ J' = r.TJ.J
    /\ sumDeltas' = VecAdd(sumDeltas, q_delta)
    /\ cycle' = IF cycle < 2 THEN cycle + 1 ELSE cycle
    /\ pc' = LoopNext(pc, shutdown)
    /\ loopTarget' = 0
    /\ v' = None
    /\ q_delta' = None
    /\ observed' = None
    /\ heap' = Collect(heap, {target})
    /\ UNCHANGED <<target, fbpc, fbmsg, shutdown, q_init, delivered, nUpdates,
                   firstClean>>
    /\ UNCHANGED <<pinvVars, oriVars>>

(* rate.sleep() *)
Sleep ==
    /\ pc = "sleep"
    /\ pc' = LoopNext(pc, shutdown)
    /\ UNCHANGED <<joints, T, J, published, heap, target, fbpc, fbmsg, shutdown,
                   loopTarget, v, q_delta, q_init, sumDeltas, delivered, observed,
                   nUpdates, cycle, firstClean>>
    /\ UNCHANGED <<pinvVars, oriVars>>

(* the node is asked to shut down *)
Shutdown ==
    /\ ~shutdown
    /\ shutdown' = TRUE
    /\ UNCHANGED <<joints, T, J, published, heap, target, fbpc, fbmsg, pc,
                   loopTarget, v, q_delta, q_init, sumDeltas, delivered, observed,
                   nUpdates, cycle, firstClean>>
    /\ UNCHANGED <<pinvVars, oriVars>>

Next ==
    \/ FeedbackAssign
    \/ FeedbackSetTranslation
    \/ LoopCheck
    \/ ReadTarget
    \/ ComputeError
    \/ Solve
    \/ Actuate
    \/ Sleep
    \/ Shutdown

Spec == Init /\ [][Next]_vars

--------------------------------------------------------------------------
(* pinv_svd and Controller.solve as functions of their inputs *)

(* the controller is constructed and left alone *)
CtlIdle == CtlInit /\ q_init = <<R(1), R(0)>>

JVals == {R(0), <<1, 20000>>, <<1, 10000>>, <<1, 200>>, R(1), R(-1)}

PinvInputs == {<<<<a, R(0)>>, <<R(0), b>>>> : a \in JVals, b \in JVals}

Policies ==
    [variant : Variants \cup {"unknown"},
     eps     : {eps_default, <<1, 200>>},
     lam     : {lam_default, <<1, 2>>},
     lam_min : {lam_min_default, <<1, 200>>}]

ErrorVecs == {<<R(a), R(b)>> : a \in -MaxErr..MaxErr, b \in -MaxErr..MaxErr}

InitPinv ==
    /\ CtlIdle
    /\ OriIdle
    /\ pv_J \in PinvInputs
    /\ policy \in Policies
    /\ pcP = "idle"
    /\ pv_svd = <<>>
    /\ pv_out = <<>>
    /\ sv_err = <<>>
    /\ sv_out = <<>>

(* pinv_svd, line 9 *)
PinvSVD ==
    /\ pcP = "idle"
    /\ pv_svd' = <<SVD(pv_J)>>
    /\ pcP' = "svd_done"
    /\ UNCHANGED <<pv_J, policy, pv_out, sv_err, sv_out>>
    /\ UNCHANGED <<ctlVars, oriVars>>

(* pinv_svd, lines 11-29 *)
PinvDispatch ==
    /\ pcP = "svd_done"
    /\ IF policy.variant \in Variants
       THEN /\ pv_out' = pinv_return(pv_svd[1],
                            Sinv(pv_svd[1].S, policy.variant, policy.eps, policy.lam,
                                 policy.lam_min))
            /\ pcP' = "returned"
       ELSE /\ pv_out' = pv_out
            /\ pcP' = "raised"
    /\ UNCHANGED <<pv_J, policy, pv_svd, sv_err, sv_out>>
    /\ UNCHANGED <<ctlVars, oriVars>>

(* Controller.solve(J, error) *)
SolveCall ==
    /\ sv_err = <<>>
    /\ \E e \in ErrorVecs :
          /\ sv_err' = e
          /\ sv_out' = solve(pv_J, e)
    /\ UNCHANGED <<pv_J, policy, pcP, pv_svd, pv_out>>
    /\ UNCHANGED <<ctlVars, oriVars>>

NextPinv == PinvSVD \/ PinvDispatch \/ SolveCall

SpecPinv == InitPinv /\ [][NextPinv]_vars

--------------------------------------------------------------------------
(* The two orientation errors as functions of their inputs *)

InitOri ==
    /\ CtlIdle
    /\ PinvIdle
    /\ oe_tgt \in -MaxAngle..MaxAngle
    /\ oe_cur \in -MaxAngle..MaxAngle
    /\ oe_out = <<>>
    /\ alt_out = <<>>

(* pose_control, line 152 *)
CallOrientationError ==
    /\ oe_out = <<>>
    /\ oe_out' = orientation_error(oe_tgt, oe_cur)
    /\ UNCHANGED <<oe_tgt, oe_cur, alt_out>>
    /\ UNCHANGED <<ctlVars, pinvVars>>

CallAltOrientationError ==
    /\ alt_out = <<>>
    /\ alt_out' = alt_orientation_error(oe_tgt, oe_cur)
    /\ UNCHANGED <<oe_tgt, oe_cur, oe_out>>
    /\ UNCHANGED <<ctlVars, pinvVars>>

NextOri == CallOrientationError \/ CallAltOrientationError

SpecOri == InitOri /\ [][NextOri]_vars

--------------------------------------------------------------------------
(* Properties *)

(* C1: every target matrix the control loop's error computation observes is *)
(* the complete pose (rotation and translation) delivered by one single     *)
(* update; it never pairs the rotation of one update with a translation     *)
(* that is not that update's.                                               *)
C1_NoTornTarget == pc \in {"solve", "actuate"} => observed \in delivered

(* C2: when pinv_svd rejects an unknown policy selector, no SVD of the      *)
(* input matrix has been computed by that call.                             *)
C2_RejectBeforeSVD == pcP = "raised" => pv_svd = <<>>

(* C3: solve(J, error) is the generalized inverse of J under the configured *)
(* policy and its parameters, applied to error.                             *)
C3_SolveIsPolicyInverse ==
    (sv_out # <<>> /\ policy.variant \in Variants) =>
        sv_out = MatVec(pinv_svd(pv_J, policy.variant, policy.eps, policy.lam,
                                 policy.lam_min), sv_err)

(* C4: a cycle runs read target, error, solve, actuate in this order; the   *)
(* cached pose, Jacobian and joints change in actuate only, where the pose  *)
(* and Jacobian are recomputed; the loop stops only between cycles (from    *)
(* the loop test or the sleep), and once stopped it stays stopped.          *)
C4_CycleOrder ==
    [][ /\ (pc = "check" /\ pc' # pc) =>
               \/ shutdown /\ pc' = "stopped"
               \/ ~shutdown /\ pc' = "read"
        /\ (pc = "read" /\ pc' # pc) => pc' = "error" /\ loopTarget' = target
        /\ (pc = "error" /\ pc' # pc) => pc' = "solve"
        /\ (pc = "solve" /\ pc' # pc) => pc' = "actuate"
        /\ (pc = "actuate" /\ pc' # pc) =>
               pc' = "sleep" /\ T' = fk(joints').T /\ J' = fk(joints').J
        /\ (pc = "sleep" /\ pc' # pc) =>
               \/ shutdown /\ pc' = "stopped"
               \/ ~shutdown /\ pc' = "check"
        /\ pc = "stopped" => pc' = "stopped"
        /\ pc' = "stopped" => pc \in {"check", "sleep", "stopped"}
        /\ (pc # "actuate" \/ pc' = pc) => UNCHANGED <<T, J, joints>>
      ]_vars

(* a shutdown request is pending while a cycle is about to actuate *)
C4_Witness == shutdown /\ pc = "actuate" /\ cycle >= 1

(* C5: after construction the target is the current end-effector pose; if   *)
(* no update has arrived when the first cycle reads the target, that cycle  *)
(* computes a zero error and a zero joint delta, and after its actuate the  *)
(* joints are the initial joints.                                           *)
C5_FirstCycleZero ==
    /\ (cycle = 0 /\ nUpdates = 0) => heap[target] = T
    /\ (cycle = 0 /\ firstClean /\ pc \in {"solve", "actuate"}) => v = ZeroVec(3)
    /\ (cycle = 0 /\ firstClean /\ pc = "actuate") => q_delta = ZeroVec(2)
    /\ (cycle = 1 /\ firstClean) => joints = q_init /\ T = fk(q_init).T

C5_Witness == cycle = 1 /\ firstClean /\ pc = "sleep" /\ published = q_init

(* C6: pinv_svd inverts every singular value by the rule of the policy      *)
(* (x is the inverted value of s):                                          *)
(*   plain    x = 1/s if s > 0, else 0                                      *)
(*   clipped  x = 0 if s < eps, else 1/s                                    *)
(*   damped   x = s / (s^2 + lam^2)                                         *)
(*   smooth   x = 1/s if s > eps, else s / (s^2 + lam_min^2)                *)
(* so smooth agrees with plain when every s > eps and with damped at        *)
(* lam = lam_min when every s <= eps.                                       *)
C6_Rule(x, s, pol) ==
    CASE pol.variant = "plain" ->
            \/ RatLess(R(0), s) /\ RatMul(x, s) = R(1)
            \/ s = R(0) /\ x = R(0)
      [] pol.variant = "clipped" ->
            \/ RatLess(s, pol.eps) /\ x = R(0)
            \/ RatLeq(pol.eps, s) /\ RatMul(x, s) = R(1)
      [] pol.variant = "damped" ->
            RatMul(x, RatAdd(RatMul(s, s), RatMul(pol.lam, pol.lam))) = s
      [] pol.variant = "smooth" ->
            \/ RatLess(pol.eps, s) /\ RatMul(x, s) = R(1)
            \/ /\ RatLeq(s, pol.eps)
               /\ RatMul(x, RatAdd(RatMul(s, s), RatMul(pol.lam_min, pol.lam_min))) = s

Sign(x) == IF x[1] < 0 THEN R(-1) ELSE R(1)

C6_PolicyRules ==
    pcP = "returned" =>
        /\ \A i \in 1..2 : \A j \in 1..2 :
              IF i = j
              THEN C6_Rule(RatMul(Sign(pv_J[i][i]), pv_out[i][i]), RatAbs(pv_J[i][i]), policy)
              ELSE pv_out[i][j] = R(0)
        /\ (policy.variant = "smooth" /\ \A i \in 1..2 : RatLess(policy.eps, RatAbs(pv_J[i][i])))
              => pv_out = pinv_svd(pv_J, "plain", policy.eps, policy.lam, policy.lam_min)
        /\ (policy.variant = "smooth" /\ \A i \in 1..2 : RatLeq(RatAbs(pv_J[i][i]), policy.eps))
              => pv_out = pinv_svd(pv_J, "damped", policy.eps, policy.lam_min, policy.lam_min)

(* smooth was applied to a matrix with a singular value equal to eps *)
C6_Witness ==
    /\ pcP = "returned"
    /\ policy.variant = "smooth"
    /\ pv_J[1][1] = policy.eps
    /\ pv_J[2][2] = <<1, 20000>>

(* C7: under damped with lam > 0 no entry of the generalized inverse        *)
(* exceeds 1/lam in magnitude and a zero singular value is inverted to 0;   *)
(* under plain the inverse of [[1,0],[0,0]] is [[1,0],[0,0]].               *)
C7_DampedBounded ==
    pcP = "returned" =>
        /\ policy.variant = "damped" =>
              /\ \A i \in 1..2 : \A j \in 1..2 :
                    RatLeq(RatAbs(pv_out[i][j]), RatInv(policy.lam))
              /\ \A i \in 1..2 : pv_J[i][i] = R(0) => pv_out[i][i] = R(0)
        /\ (policy.variant = "plain" /\ pv_J = <<<<R(1), R(0)>>, <<R(0), R(0)>>>>)
              => pv_out = <<<<R(1), R(0)>>, <<R(0), R(0)>>>>

C7_Witness ==
    /\ pcP = "returned"
    /\ policy.variant = "damped"
    /\ policy.lam = lam_default
    /\ pv_J = <<<<R(1), R(0)>>, <<R(0), R(0)>>>>

(* C8: the orientation error the controller uses is the zero vector         *)
(* whenever the angle between current and target orientation is zero        *)
(* within the tolerance.                                                    *)
C8_ZeroWithinTolerance ==
    (oe_out # <<>> /\ isclose_zero(oe_tgt - oe_cur)) => oe_out = <<0, 0, 0>>

(* C9: actuate with an all-zero delta leaves the joint configuration, the   *)
(* pose and the Jacobian as they were.                                      *)
C9_ZeroActuate ==
    [][ (pc = "actuate" /\ pc' # pc /\ q_delta = ZeroVec(2)) =>
            joints' = joints /\ T' = T /\ J' = J ]_vars

(* two cycles have actuated and no update ever arrived: both deltas were zero *)
C9_Witness ==
    /\ cycle = 2
    /\ nUpdates = 0
    /\ joints = q_init
    /\ q_init = <<R(-1), R(1)>>
    /\ pc = "sleep"

(* C10: in every state between two steps of the loop the cached pose and    *)
(* Jacobian are fk of the current joints, the current joints are the        *)
(* initial joints plus all deltas applied, and they are the joints last     *)
(* published.                                                               *)
C10_CacheFresh ==
    /\ T = fk(joints).T
    /\ J = fk(joints).J
    /\ joints = VecAdd(q_init, sumDeltas)
    /\ published # <<>> => published = joints

C10_Witness == pc = "error" /\ cycle >= 1 /\ joints # q_init /\ J # fk(q_init).J

=============================================================================
